---------------------------- MODULE Spec2Model ----------------------------
(***************************************************************************)
(* The board engine of the minesweeper program (src/game.go, src/main.go): *)
(* the Game struct, NewGame and one action per branch of Game.Update, with *)
(* initializeGridSafely, calculateNeighbors, revealCell, revealAllMines and *)
(* checkWin as operators computed the way the code computes them.          *)
(*                                                                         *)
(* The three boards are scaled down (9x9, 16x16, 30x16 cannot be explored) *)
(* keeping every order relation the code depends on:                       *)
(*   - Easy is narrower and lower than the package constants gridWidth and *)
(*     gridHeight of src/main.go, Medium equals them, Hard is wider than   *)
(*     gridWidth and as high as gridHeight;                                *)
(*   - every board holds a full 3x3 safe zone and two placements of       *)
(*     MineCount mines outside of it.                                      *)
(* cellSize and the 80 pixel strip below the board are the code's values.  *)
(***************************************************************************)
EXTENDS Integers, Sequences, FiniteSets, TLC

VARIABLES
    grid,                   \* Game.grid: rows of cells, grid[y][x]
    gameOver,               \* Game.gameOver
    won,                    \* Game.won
    difficulty,             \* Game.difficulty
    firstClick,             \* Game.firstClick
    showingDifficultyMenu,  \* Game.showingDifficultyMenu
    elapsedTime,            \* Game.elapsedTime: 0, or 1 for any positive duration
    panicked,               \* the process died of a runtime panic (index out of range)
    last,                   \* the path the latest call of Update took
    moves                   \* ticks of the current game with a mouse button pressed

vars == <<grid, gameOver, won, difficulty, firstClick, showingDifficultyMenu,
          elapsedTime, panicked, last, moves>>

----------------------------------------------------------------------------
(* Constants and configuration *)

Difficulty == {"Easy", "Medium", "Hard"}

cellSize == 32

\* the package constants of src/main.go (16 and 16 there, the size of Medium)
gridWidth == 5

gridHeight == 4

\* height in pixels of the strip below the board (timer and buttons)
bottomStrip == 80

\* where Draw puts restartBtn and difficultyBtn: X, and Y below the board
restartBtnX == 10

difficultyBtnX == 140

btnTop == 20

difficultySettings ==
    [d \in Difficulty |->
        CASE d = "Easy"   -> [GridWidth |-> 4, GridHeight |-> 3, MineCount |-> 1]
          [] d = "Medium" -> [GridWidth |-> 5, GridHeight |-> 4, MineCount |-> 1]
          [] d = "Hard"   -> [GridWidth |-> 6, GridHeight |-> 4, MineCount |-> 1]]

\* difficultySettings with the sizes and mine counts the program ships
shippedSettings ==
    [d \in Difficulty |->
        CASE d = "Easy"   -> [GridWidth |-> 9, GridHeight |-> 9, MineCount |-> 10]
          [] d = "Medium" -> [GridWidth |-> 16, GridHeight |-> 16, MineCount |-> 40]
          [] d = "Hard"   -> [GridWidth |-> 30, GridHeight |-> 16, MineCount |-> 99]]

\* the ticks with a mouse button pressed the model follows in one game: on
\* the Easy board, and on the two larger boards
MaxMovesEasy == 2

MaxMoves == 1

\* and, for clicks on mines, on a board with two placements of mines and a
\* flagged mine
MaxMovesTwice == 3

MoveBound(d) == IF d = "Easy" THEN MaxMovesEasy ELSE MaxMoves

\* Go's integer division truncates toward zero
GoDiv(a, b) == IF a >= 0 THEN a \div b ELSE -((-a) \div b)

----------------------------------------------------------------------------
(* Cells and grids *)

EmptyCell == [hasMine |-> FALSE, revealed |-> FALSE, flagged |-> FALSE, neighbors |-> 0]

\* a grid as a stored value: TLC keeps [x \in S |-> e] as an unevaluated
\* expression, and @@ evaluates it
Stored(g) == [y \in DOMAIN g |-> g[y] @@ g[y]] @@ <<>>

\* make([][]Cell, GridHeight) with rows make([]Cell, GridWidth)
NewGrid(config) ==
    Stored([y \in 0..(config.GridHeight - 1) |->
                [x \in 0..(config.GridWidth - 1) |-> EmptyCell]])

\* the bounds test the engine writes against the active difficulty's config
InConfig(config, x, y) ==
    x >= 0 /\ x < config.GridWidth /\ y >= 0 /\ y < config.GridHeight

\* g.grid[y][x] is a valid index expression (otherwise Go panics)
IndexOK(g, x, y) == y \in DOMAIN g /\ x \in DOMAIN g[y]

Positions(g) == UNION {{<<x, y>> : x \in DOMAIN g[y]} : y \in DOMAIN g}

Offsets == (-1..1) \X (-1..1)

\* a variant that leaves the counts as they are
calculateNeighborsSkipped(g, config) == g

\* a variant that adds the count to the value the cell already holds
calculateNeighborsAdding(g, config) ==
    Stored([y \in DOMAIN g |-> [x \in DOMAIN g[y] |->
        IF InConfig(config, x, y) /\ ~g[y][x].hasMine
        THEN [g[y][x] EXCEPT !.neighbors = g[y][x].neighbors +
                Cardinality({o \in Offsets :
                    /\ InConfig(config, x + o[1], y + o[2])
                    /\ g[y + o[2]][x + o[1]].hasMine})]
        ELSE g[y][x]]])

calculateNeighbors(g, config) ==
    Stored([y \in DOMAIN g |-> [x \in DOMAIN g[y] |->
        IF InConfig(config, x, y) /\ ~g[y][x].hasMine
        THEN [g[y][x] EXCEPT !.neighbors =
                Cardinality({o \in Offsets :
                    /\ InConfig(config, x + o[1], y + o[2])
                    /\ g[y + o[2]][x + o[1]].hasMine})]
        ELSE g[y][x]]])

\* a variant of the safe zone that spans the 5x5 block
safeZoneWide(config, firstX, firstY) ==
    {<<firstX + o[1], firstY + o[2]>> : o \in
        {o \in (-2..2) \X (-2..2) : InConfig(config, firstX + o[1], firstY + o[2])}}

\* the safe zone of initializeGridSafely: the in-bounds cells of the 3x3 block
safeZone(config, firstX, firstY) ==
    {<<firstX + o[1], firstY + o[2]>> : o \in
        {o \in Offsets : InConfig(config, firstX + o[1], firstY + o[2])}}

RECURSIVE KSubsets(_, _)
KSubsets(S, k) ==
    IF k = 0 THEN {{}}
    ELSE IF S = {} THEN {}
    ELSE LET e == CHOOSE e \in S : TRUE
         IN  KSubsets(S \ {e}, k) \cup {T \cup {e} : T \in KSubsets(S \ {e}, k - 1)}

\* the sets of cells the placement loop can turn into mines: MineCount cells
\* that hold no mine yet and lie outside the safe zone (rand.Intn picks any)
PlacementChoices(g, config, firstX, firstY) ==
    KSubsets({p \in (0..(config.GridWidth - 1)) \X (0..(config.GridHeight - 1)) :
                ~g[p[2]][p[1]].hasMine /\ p \notin safeZone(config, firstX, firstY)},
             config.MineCount)

\* initializeGridSafely with the outcome M of its random draws
initializeGridSafely(g, config, M) ==
    calculateNeighbors(
        Stored([y \in DOMAIN g |-> [x \in DOMAIN g[y] |->
            IF <<x, y>> \in M THEN [g[y][x] EXCEPT !.hasMine = TRUE] ELSE g[y][x]]]),
        config)

\* h has been computed (always TRUE): used to run the loop of revealCell one
\* iteration after the other, each on the grid the previous one left
Done(h) == DOMAIN h # {}

\* a variant of revealCell without the guard on cell.flagged
RECURSIVE revealCellThroughFlags(_, _, _, _)
revealCellThroughFlags(g, config, x, y) ==
    IF x < 0 \/ x >= config.GridWidth \/ y < 0 \/ y >= config.GridHeight THEN g
    ELSE IF g[y][x].revealed THEN g
    ELSE LET g0 == [g EXCEPT ![y][x].revealed = TRUE]
         IN  IF g0[y][x].neighbors # 0 THEN g0
             ELSE LET g1 == revealCellThroughFlags(g0, config, x - 1, y - 1)
                      g2 == revealCellThroughFlags(g1, config, x, y - 1)
                      g3 == revealCellThroughFlags(g2, config, x + 1, y - 1)
                      g4 == revealCellThroughFlags(g3, config, x - 1, y)
                      g5 == revealCellThroughFlags(g4, config, x, y)
                      g6 == revealCellThroughFlags(g5, config, x + 1, y)
                      g7 == revealCellThroughFlags(g6, config, x - 1, y + 1)
                      g8 == revealCellThroughFlags(g7, config, x, y + 1)
                      g9 == revealCellThroughFlags(g8, config, x + 1, y + 1)
                  IN  IF Done(g1) /\ Done(g2) /\ Done(g3) /\ Done(g4) /\ Done(g5)
                         /\ Done(g6) /\ Done(g7) /\ Done(g8)
                      THEN g9 ELSE g0

\* a variant of revealCell that reveals the cell and never its neighbours
revealCellAlone(g, config, x, y) ==
    IF x < 0 \/ x >= config.GridWidth \/ y < 0 \/ y >= config.GridHeight THEN g
    ELSE IF g[y][x].revealed \/ g[y][x].flagged THEN g
    ELSE [g EXCEPT ![y][x].revealed = TRUE]

\* revealCell: the guards, cell.revealed = true, and for a cell without
\* neighbouring mines the double loop dy, dx in -1..1 (g1 .. g9 are the grids
\* after its nine recursive calls, the fifth being the call on (x, y) itself)
RECURSIVE revealCell(_, _, _, _)
revealCell(g, config, x, y) ==
    IF x < 0 \/ x >= config.GridWidth \/ y < 0 \/ y >= config.GridHeight THEN g
    ELSE IF g[y][x].revealed \/ g[y][x].flagged THEN g
    ELSE LET g0 == [g EXCEPT ![y][x].revealed = TRUE]
         IN  IF g0[y][x].neighbors # 0 THEN g0
             ELSE LET g1 == revealCell(g0, config, x - 1, y - 1)
                      g2 == revealCell(g1, config, x, y - 1)
                      g3 == revealCell(g2, config, x + 1, y - 1)
                      g4 == revealCell(g3, config, x - 1, y)
                      g5 == revealCell(g4, config, x, y)
                      g6 == revealCell(g5, config, x + 1, y)
                      g7 == revealCell(g6, config, x - 1, y + 1)
                      g8 == revealCell(g7, config, x, y + 1)
                      g9 == revealCell(g8, config, x + 1, y + 1)
                  IN  IF Done(g1) /\ Done(g2) /\ Done(g3) /\ Done(g4) /\ Done(g5)
                         /\ Done(g6) /\ Done(g7) /\ Done(g8)
                      THEN g9 ELSE g0

\* a variant of revealAllMines that uncovers the whole board
revealEveryCell(g, config) ==
    Stored([y \in DOMAIN g |-> [x \in DOMAIN g[y] |->
        IF InConfig(config, x, y)
        THEN [g[y][x] EXCEPT !.revealed = TRUE] ELSE g[y][x]]])

\* a variant of revealCellCounted that goes on through numbered cells
RECURSIVE revealCellCountedPastNumbers(_, _, _, _)
revealCellCountedPastNumbers(t, config, x, y) ==
    IF x < 0 \/ x >= config.GridWidth \/ y < 0 \/ y >= config.GridHeight
    THEN [t EXCEPT !.calls = t.calls + 1]
    ELSE IF t.grid[y][x].revealed \/ t.grid[y][x].flagged
    THEN [t EXCEPT !.calls = t.calls + 1]
    ELSE LET t0 == [grid |-> [t.grid EXCEPT ![y][x].revealed = TRUE],
                    writes |-> Append(t.writes, <<x, y>>),
                    calls |-> t.calls + 1]
         IN  IF t0.grid[y][x].hasMine THEN t0
             ELSE LET t1 == revealCellCountedPastNumbers(t0, config, x - 1, y - 1)
                      t2 == revealCellCountedPastNumbers(t1, config, x, y - 1)
                      t3 == revealCellCountedPastNumbers(t2, config, x + 1, y - 1)
                      t4 == revealCellCountedPastNumbers(t3, config, x - 1, y)
                      t5 == revealCellCountedPastNumbers(t4, config, x, y)
                      t6 == revealCellCountedPastNumbers(t5, config, x + 1, y)
                      t7 == revealCellCountedPastNumbers(t6, config, x - 1, y + 1)
                      t8 == revealCellCountedPastNumbers(t7, config, x, y + 1)
                      t9 == revealCellCountedPastNumbers(t8, config, x + 1, y + 1)
                  IN  IF Done(t1.grid) /\ Done(t2.grid) /\ Done(t3.grid)
                         /\ Done(t4.grid) /\ Done(t5.grid) /\ Done(t6.grid)
                         /\ Done(t7.grid) /\ Done(t8.grid)
                      THEN t9 ELSE t0

\* revealCell with a record of its run: t.grid is the grid, t.writes the cells
\* whose revealed it has set, in order, t.calls the calls made so far
RECURSIVE revealCellCounted(_, _, _, _)
revealCellCounted(t, config, x, y) ==
    IF x < 0 \/ x >= config.GridWidth \/ y < 0 \/ y >= config.GridHeight
    THEN [t EXCEPT !.calls = t.calls + 1]
    ELSE IF t.grid[y][x].revealed \/ t.grid[y][x].flagged
    THEN [t EXCEPT !.calls = t.calls + 1]
    ELSE LET t0 == [grid |-> [t.grid EXCEPT ![y][x].revealed = TRUE],
                    writes |-> Append(t.writes, <<x, y>>),
                    calls |-> t.calls + 1]
         IN  IF t0.grid[y][x].neighbors # 0 THEN t0
             ELSE LET t1 == revealCellCounted(t0, config, x - 1, y - 1)
                      t2 == revealCellCounted(t1, config, x, y - 1)
                      t3 == revealCellCounted(t2, config, x + 1, y - 1)
                      t4 == revealCellCounted(t3, config, x - 1, y)
                      t5 == revealCellCounted(t4, config, x, y)
                      t6 == revealCellCounted(t5, config, x + 1, y)
                      t7 == revealCellCounted(t6, config, x - 1, y + 1)
                      t8 == revealCellCounted(t7, config, x, y + 1)
                      t9 == revealCellCounted(t8, config, x + 1, y + 1)
                  IN  IF Done(t1.grid) /\ Done(t2.grid) /\ Done(t3.grid)
                         /\ Done(t4.grid) /\ Done(t5.grid) /\ Done(t6.grid)
                         /\ Done(t7.grid) /\ Done(t8.grid)
                      THEN t9 ELSE t0

\* the start of a run on grid g
NoRun(g) == [grid |-> g, writes |-> <<>>, calls |-> 0]

\* a variant of revealAllMines that takes the mines it uncovers off the board
revealAllMinesDefusing(g, config) ==
    Stored([y \in DOMAIN g |-> [x \in DOMAIN g[y] |->
        IF InConfig(config, x, y) /\ g[y][x].hasMine
        THEN [g[y][x] EXCEPT !.revealed = TRUE, !.hasMine = FALSE] ELSE g[y][x]]])

revealAllMines(g, config) ==
    Stored([y \in DOMAIN g |-> [x \in DOMAIN g[y] |->
        IF InConfig(config, x, y) /\ g[y][x].hasMine
        THEN [g[y][x] EXCEPT !.revealed = TRUE] ELSE g[y][x]]])

\* a variant of the test that counts a mine only by its flag
NotYetWonByFlagOnly(cell) ==
    (~cell.hasMine /\ ~cell.revealed) \/ (cell.hasMine /\ ~cell.flagged)

\* a variant of the test that looks at mines only
NotYetWonMinesOnly(cell) == cell.hasMine /\ ~cell.flagged /\ ~cell.revealed

\* the test of checkWin's inner loop
NotYetWon(cell) ==
    (~cell.hasMine /\ ~cell.revealed) \/ (cell.hasMine /\ ~cell.flagged /\ ~cell.revealed)

\* checkWin's loops: w is the local won, break leaves the row at the first hit
RECURSIVE checkWinScan(_, _, _, _, _)
checkWinScan(g, config, x, y, w) ==
    IF y >= config.GridHeight THEN w
    ELSE IF x >= config.GridWidth THEN checkWinScan(g, config, 0, y + 1, w)
    ELSE IF NotYetWon(g[y][x]) THEN checkWinScan(g, config, 0, y + 1, FALSE)
    ELSE checkWinScan(g, config, x + 1, y, w)

\* the value checkWin leaves in g.won
checkWin(g, config, fc, w) ==
    IF fc THEN w ELSE checkWinScan(g, config, 0, 0, TRUE)

----------------------------------------------------------------------------
(* Inputs of one tick: the cursor and the buttons just pressed *)

\* cursor positions in pixels inside the window: one per cell of the board,
\* and one per cell row of the strip below it (in its first column)
CursorXs(config) == {c * cellSize : c \in 0..(config.GridWidth - 1)}

CursorYs(config) == {r * cellSize : r \in 0..(config.GridHeight - 1)}

StripYs(config) ==
    {r * cellSize : r \in config.GridHeight ..
        GoDiv(config.GridHeight * cellSize + bottomStrip - 1, cellSize)}

Cursors(config) ==
    (CursorXs(config) \X CursorYs(config)) \cup ({0} \X StripYs(config))

\* btn: the button whose rectangle holds the cursor, for the branch of Update
\* that tests it (restartBtn, difficultyBtn, or a button of the difficulty
\* menu, which is drawn over the board and tested only while it is open)
NoInput == [left |-> FALSE, right |-> FALSE, x |-> 0, y |-> 0, btn |-> "none"]

CellInputs(config) ==
    {[left |-> b[1], right |-> b[2], x |-> c[1], y |-> c[2], btn |-> "none"] :
        b \in {<<TRUE, FALSE>>, <<FALSE, TRUE>>, <<TRUE, TRUE>>},
        c \in Cursors(config)}

\* a left click on restartBtn or difficultyBtn, where Draw puts them
ButtonInputs(config) ==
    {[left |-> TRUE, right |-> FALSE, x |-> restartBtnX,
      y |-> config.GridHeight * cellSize + btnTop, btn |-> "restart"],
     [left |-> TRUE, right |-> FALSE, x |-> difficultyBtnX,
      y |-> config.GridHeight * cellSize + btnTop, btn |-> "difficulty"]}

\* a left click on a button of the difficulty menu
MenuInputs ==
    {[left |-> TRUE, right |-> FALSE, x |-> 0, y |-> 0, btn |-> d] : d \in Difficulty}

Inputs ==
    {NoInput} \cup CellInputs(difficultySettings[difficulty])
        \cup (IF showingDifficultyMenu THEN MenuInputs
              ELSE ButtonInputs(difficultySettings[difficulty]))

----------------------------------------------------------------------------
(* Game.Update, one call per tick *)

\* the record kept in last: the branch of Update, the paths through its left
\* and right click blocks ("ignored": the button was pressed and the branch
\* returns without looking at it), whether initializeGridSafely ran, the
\* sounds played, and the cell <<gridX, gridY>> under the cursor of a tick of
\* play with a button pressed
NoCell == <<>>

Path(op, lp, rp, placed, snd) ==
    [op |-> op, leftPath |-> lp, rightPath |-> rp, placed |-> placed,
     sounds |-> snd, cell |-> NoCell]

Pressed(b) == IF b THEN "ignored" ELSE "none"

\* a variant of the guard that lets a lost session go on
IsTerminalWonOnly(go, w) == w

\* the guard of the branch that handles a finished session
IsTerminal(go, w) == go \/ w

NoLeftClick(g, fc, go) ==
    [grid |-> g, firstClick |-> fc, gameOver |-> go, path |-> "none",
     placed |-> FALSE, sounds |-> <<>>]

\* the left-click block of Update on grid g, with M the outcome of the random
\* draws of initializeGridSafely should the block call it
LeftClick(g, config, fc, go, gx, gy, M) ==
    IF ~InConfig(config, gx, gy)
    THEN [NoLeftClick(g, fc, go) EXCEPT !.path = "outside"]
    ELSE IF g[gy][gx].flagged
    THEN [NoLeftClick(g, fc, go) EXCEPT !.path = "flagged"]
    ELSE LET mined == IF fc THEN initializeGridSafely(g, config, M) ELSE g
             snd == IF fc THEN <<"click">> ELSE <<>>
         IN  IF mined[gy][gx].hasMine
             THEN [grid |-> revealAllMines(mined, config), firstClick |-> FALSE,
                   gameOver |-> TRUE, path |-> "mine", placed |-> fc,
                   sounds |-> Append(snd, "explosion")]
             ELSE [grid |-> revealCell(mined, config, gx, gy), firstClick |-> FALSE,
                   gameOver |-> go,
                   path |-> IF mined[gy][gx].revealed THEN "revealed" ELSE "reveal",
                   placed |-> fc, sounds |-> Append(snd, "click")]

\* the bounds test of the right-click block: the package constants of main.go
InFlagBounds(gx, gy) == gx >= 0 /\ gx < gridWidth /\ gy >= 0 /\ gy < gridHeight

\* a variant of the right-click block without the guard on revealed
RightClickAnyCell(g, gx, gy) ==
    IF ~InFlagBounds(gx, gy) THEN [grid |-> g, path |-> "outside", sounds |-> <<>>]
    ELSE IF ~IndexOK(g, gx, gy) THEN [grid |-> g, path |-> "panic", sounds |-> <<>>]
    ELSE [grid |-> [g EXCEPT ![gy][gx].flagged = ~g[gy][gx].flagged],
          path |-> "toggle", sounds |-> <<"flag">>]

\* the right-click block of Update on grid g
RightClick(g, gx, gy) ==
    IF ~InFlagBounds(gx, gy) THEN [grid |-> g, path |-> "outside", sounds |-> <<>>]
    ELSE IF ~IndexOK(g, gx, gy) THEN [grid |-> g, path |-> "panic", sounds |-> <<>>]
    ELSE IF g[gy][gx].revealed THEN [grid |-> g, path |-> "revealed", sounds |-> <<>>]
    ELSE [grid |-> [g EXCEPT ![gy][gx].flagged = ~g[gy][gx].flagged],
          path |-> "toggle", sounds |-> <<"flag">>]

\* the grids of a new game mined at once: NewGame's empty grid after
\* initializeGridSafely(-1, -1), one per outcome of the random draws
MinedGrids(config) ==
    {initializeGridSafely(NewGrid(config), config, M) :
        M \in PlacementChoices(NewGrid(config), config, -1, -1)}

NewGameMined == [d \in Difficulty |-> MinedGrids(difficultySettings[d])] @@ <<>>

Init ==
    /\ grid = NewGrid(difficultySettings["Easy"])
    /\ gameOver = FALSE
    /\ won = FALSE
    /\ difficulty = "Easy"
    /\ firstClick = TRUE
    /\ showingDifficultyMenu = FALSE
    /\ elapsedTime = 0
    /\ panicked = FALSE
    /\ last = Path("init", "none", "none", FALSE, <<>>)
    /\ moves = 0

\* the menu is open and a difficulty button is clicked: a new game of that
\* difficulty, its grid cleared and mined at once with (-1, -1)
SelectDifficulty(in) ==
    /\ ~panicked
    /\ showingDifficultyMenu
    /\ in.left /\ in.btn \in Difficulty
    /\ grid' \in NewGameMined[in.btn]
    /\ last' = Path("select", "none", "none", TRUE, <<"click">>)
    /\ difficulty' = in.btn
    /\ gameOver' = FALSE
    /\ won' = FALSE
    /\ firstClick' = FALSE
    /\ showingDifficultyMenu' = FALSE
    /\ elapsedTime' = 0
    /\ moves' = 0
    /\ UNCHANGED panicked

\* a variant of the branch in which a click off the buttons closes the menu
MenuIdleClosing(in) ==
    /\ ~panicked
    /\ showingDifficultyMenu
    /\ ~(in.left /\ in.btn \in Difficulty)
    /\ last' = Path("menu", Pressed(in.left), Pressed(in.right), FALSE, <<>>)
    /\ showingDifficultyMenu' = ~in.left
    /\ UNCHANGED <<grid, gameOver, won, difficulty, firstClick,
                   elapsedTime, panicked, moves>>

\* the menu is open and no difficulty button is clicked
MenuIdle(in) ==
    /\ ~panicked
    /\ showingDifficultyMenu
    /\ ~(in.left /\ in.btn \in Difficulty)
    /\ last' = Path("menu", Pressed(in.left), Pressed(in.right), FALSE, <<>>)
    /\ UNCHANGED <<grid, gameOver, won, difficulty, firstClick,
                   showingDifficultyMenu, elapsedTime, panicked, moves>>

\* finished session, restart button: a new game of the same difficulty, mined
\* at once with (-1, -1), firstClick left TRUE by NewGame
Restart(in) ==
    /\ ~panicked
    /\ ~showingDifficultyMenu
    /\ IsTerminal(gameOver, won)
    /\ in.left /\ in.btn = "restart"
    /\ grid' \in NewGameMined[difficulty]
    /\ last' = Path("restart", "none", "none", TRUE, <<"click">>)
    /\ gameOver' = FALSE
    /\ won' = FALSE
    /\ firstClick' = TRUE
    /\ showingDifficultyMenu' = FALSE
    /\ elapsedTime' = 0
    /\ moves' = 0
    /\ UNCHANGED <<difficulty, panicked>>

\* finished session, difficulty button: the menu opens
OpenMenu(in) ==
    /\ ~panicked
    /\ ~showingDifficultyMenu
    /\ IsTerminal(gameOver, won)
    /\ in.left /\ in.btn = "difficulty"
    /\ showingDifficultyMenu' = TRUE
    /\ last' = Path("openMenu", "none", "none", FALSE, <<"click">>)
    /\ UNCHANGED <<grid, gameOver, won, difficulty, firstClick, elapsedTime,
                   panicked, moves>>

\* finished session, anything else: Update returns
TerminalIdle(in) ==
    /\ ~panicked
    /\ ~showingDifficultyMenu
    /\ IsTerminal(gameOver, won)
    /\ ~(in.left /\ in.btn \in {"restart", "difficulty"})
    /\ last' = Path("terminal", Pressed(in.left), Pressed(in.right), FALSE, <<>>)
    /\ UNCHANGED <<grid, gameOver, won, difficulty, firstClick,
                   showingDifficultyMenu, elapsedTime, panicked, moves>>

\* one more click is followed on a board that holds two placements of mines
\* with a flag on one of its mines: a click of the left button alone on a
\* cell that holds a mine (the click after which revealAllMines meets a
\* flagged mine, or a click on the flagged mine itself)
ThirdClick(in) ==
    /\ moves < MaxMovesTwice
    /\ in.left /\ ~in.right
    /\ IndexOK(grid, GoDiv(in.x, cellSize), GoDiv(in.y, cellSize))
    /\ grid[GoDiv(in.y, cellSize)][GoDiv(in.x, cellSize)].hasMine
    /\ Cardinality({p \in Positions(grid) : grid[p[2]][p[1]].hasMine})
            > difficultySettings[difficulty].MineCount
    /\ \E p \in Positions(grid) : grid[p[2]][p[1]].hasMine /\ grid[p[2]][p[1]].flagged

\* session in progress: timer, left-click block, right-click block, checkWin,
\* and the menu forced open while firstClick is still TRUE
Play(in) ==
    /\ ~panicked
    /\ ~showingDifficultyMenu
    /\ ~IsTerminal(gameOver, won)
    /\ (in.left \/ in.right) => (moves < MoveBound(difficulty) \/ ThirdClick(in))
    /\ LET config == difficultySettings[difficulty]
           gx == GoDiv(in.x, cellSize)
           gy == GoDiv(in.y, cellSize)
           places == in.left /\ InConfig(config, gx, gy) /\ ~grid[gy][gx].flagged /\ firstClick
       IN  \E M \in (IF places THEN PlacementChoices(grid, config, gx, gy) ELSE {{}}) :
           \E l \in {IF in.left
                      THEN LeftClick(grid, config, firstClick, gameOver, gx, gy, M)
                      ELSE NoLeftClick(grid, firstClick, gameOver)} :
           \E r \in {IF in.right THEN RightClick(l.grid, gx, gy)
                      ELSE [grid |-> l.grid, path |-> "none", sounds |-> <<>>]} :
           \E w \in {checkWin(r.grid, config, l.firstClick, won)} :
                /\ grid' = r.grid
                /\ firstClick' = l.firstClick
                /\ gameOver' = l.gameOver
                /\ elapsedTime' = IF ~firstClick THEN 1 ELSE elapsedTime
                /\ IF r.path = "panic"
                   THEN /\ panicked' = TRUE
                        /\ UNCHANGED <<won, showingDifficultyMenu>>
                   ELSE /\ panicked' = FALSE
                        /\ won' = w
                        /\ showingDifficultyMenu' = (l.firstClick /\ ~l.gameOver /\ ~w)
                /\ last' = [Path("play", l.path, r.path, l.placed, l.sounds \o r.sounds)
                                EXCEPT !.cell = IF in.left \/ in.right
                                                THEN <<gx, gy>> ELSE NoCell]
    /\ moves' = IF in.left \/ in.right THEN moves + 1 ELSE moves
    /\ UNCHANGED difficulty

\* one call of Update for each input the tick can bring
Next ==
    \/ \E in \in Inputs : SelectDifficulty(in)
    \/ \E in \in Inputs : MenuIdle(in)
    \/ \E in \in Inputs : Restart(in)
    \/ \E in \in Inputs : OpenMenu(in)
    \/ \E in \in Inputs : TerminalIdle(in)
    \/ \E in \in Inputs : Play(in)

Spec == Init /\ [][Next]_vars

----------------------------------------------------------------------------
(* Properties *)

\* the configuration of the active difficulty
Config == difficultySettings[difficulty]

Revealed(g) == {p \in Positions(g) : g[p[2]][p[1]].revealed}

Flagged(g) == {p \in Positions(g) : g[p[2]][p[1]].flagged}

Mines(g) == {p \in Positions(g) : g[p[2]][p[1]].hasMine}

\* the cells of g at Chebyshev distance 1 of p
Adjacent(g, p) ==
    {q \in {<<p[1] + o[1], p[2] + o[2]>> : o \in Offsets \ {<<0, 0>>}} :
        IndexOK(g, q[1], q[2])}

\* this step is a tick of play whose left click reveals a cell (or hits a
\* mine) on a board where no cell was revealed: the first reveal of a session
FirstReveal ==
    /\ last'.op = "play"
    /\ last'.leftPath \in {"reveal", "mine"}
    /\ Revealed(grid) = {}

\* C1: safe first click. After the tick of the first reveal of a session, the
\* clicked cell and its neighbours on the board hold no mine and the session
\* is not lost, whether the session comes from launch, restart or selection.
C1_SafeFirstClick ==
    [][FirstReveal =>
        /\ \A q \in Adjacent(grid', last'.cell) \cup {last'.cell} :
                ~grid'[q[2]][q[1]].hasMine
        /\ ~gameOver']_vars

\* C2: mine count. A grid holds either no mine (none placed yet) or exactly
\* MineCount mines of the active difficulty, in every reachable state.
C2_MineCount == Cardinality(Mines(grid)) \in {0, Config.MineCount}

\* C3: outcome exclusivity. gameOver and won are never both true.
C3_OutcomeExclusive == ~(gameOver /\ won)

\* the win predicate of the specification on grid g
WinPredicate(g) ==
    \A p \in Positions(g) :
        LET cell == g[p[2]][p[1]]
        IN  \/ ~cell.hasMine /\ cell.revealed
            \/ cell.hasMine /\ (cell.flagged \/ cell.revealed)

\* C4: win predicate. After every tick that ran checkWin on a started session
\* (firstClick false), won is true exactly when every cell is a revealed
\* non-mine cell or a flagged or revealed mine.
C4_WinPredicate ==
    (last.op = "play" /\ ~panicked /\ ~firstClick) => (won <=> WinPredicate(grid))

\* a tick of play has just registered a win by flags and reveals
C4_Witness ==
    /\ last.op = "play" /\ ~firstClick
    /\ won /\ ~gameOver
    /\ Flagged(grid) # {}

\* C5: terminal-state lock. From a won or lost session, every tick other than
\* a restart or a difficulty selection (so every click on a grid cell) leaves
\* the grid, gameOver and won unchanged.
C5_TerminalLock ==
    [][((gameOver \/ won) /\ last'.op \notin {"restart", "select"})
            => UNCHANGED <<grid, gameOver, won>>]_vars

\* a finished session has just ignored a left click and a right click
C5_Witness ==
    /\ gameOver \/ won
    /\ last.op = "terminal"
    /\ last.leftPath = "ignored" /\ last.rightPath = "ignored"

\* this step is a tick of play with the right button pressed
RightPressed == last'.op = "play" /\ last'.rightPath # "none"

\* C6: out-of-bounds flag toggle. A right click whose cell lies outside the
\* board of the active difficulty changes no cell and raises no error.
C6_OutOfBoundsFlagNoOp ==
    [][(RightPressed /\ ~InConfig(Config, last'.cell[1], last'.cell[2]))
            => (grid' = grid /\ ~panicked')]_vars

\* grid g after a flag toggle at p: flagged flipped when p is unrevealed
Toggled(g, p) ==
    IF g[p[2]][p[1]].revealed THEN g
    ELSE [g EXCEPT ![p[2]][p[1]].flagged = ~g[p[2]][p[1]].flagged]

\* C7: flag toggle. A right click (left button up) on a cell of the board of
\* the active difficulty flips flagged of that cell when it is unrevealed and
\* changes nothing else.
C7_FlagToggle ==
    [][(RightPressed /\ last'.leftPath = "none"
            /\ InConfig(Config, last'.cell[1], last'.cell[2]))
            => grid' = Toggled(grid, last'.cell)]_vars

\* this step is a tick of play with the left button pressed
LeftPressed == last'.op = "play" /\ last'.leftPath # "none"

\* C8: reveal of a flagged cell. A left click on a flagged cell changes no
\* cell, places no mine and does not end or start the session; and in every
\* tick of play whose left click does not hit a mine (direct reveal or flood
\* fill), a cell that was flagged and unrevealed stays unrevealed.
C8_FlaggedRevealNoOp ==
    [][last'.op = "play" =>
        /\ (/\ LeftPressed /\ last'.rightPath = "none"
            /\ InConfig(Config, last'.cell[1], last'.cell[2])
            /\ grid[last'.cell[2]][last'.cell[1]].flagged)
                => /\ grid' = grid
                   /\ ~last'.placed
                   /\ gameOver' = gameOver
                   /\ firstClick' = firstClick
        /\ last'.leftPath # "mine"
                => \A p \in Flagged(grid) \ Revealed(grid) :
                        ~grid'[p[2]][p[1]].revealed]_vars

\* a left click on a flagged cell has just been ignored
C8_Witness ==
    /\ last.op = "play" /\ last.leftPath = "flagged" /\ last.rightPath = "none"
    /\ grid[last.cell[2]][last.cell[1]].flagged
    /\ ~grid[last.cell[2]][last.cell[1]].revealed

\* C9: neighbor counts. In every reachable state, the neighbors field of every
\* cell without a mine is the number of mines among its adjacent cells.
C9_NeighborCount ==
    \A p \in Positions(grid) :
        ~grid[p[2]][p[1]].hasMine =>
            grid[p[2]][p[1]].neighbors = Cardinality(Adjacent(grid, p) \cap Mines(grid))

\* a second placement has just added mines to a grid that held mines
C9_Witness ==
    /\ last.placed
    /\ Cardinality(Mines(grid)) > Config.MineCount
    /\ \E p \in Positions(grid) : grid[p[2]][p[1]].neighbors > 1

\* the cells of g without a mine and without an adjacent mine
ZeroCells(g) == {p \in Positions(g) : ~g[p[2]][p[1]].hasMine /\ g[p[2]][p[1]].neighbors = 0}

\* the 8-connected component of zero cells that holds the cells of S
RECURSIVE Grow(_, _)
Grow(g, S) ==
    LET T == S \cup {q \in ZeroCells(g) : \E p \in S : q \in Adjacent(g, p)}
    IN  IF T = S THEN S ELSE Grow(g, T)

\* the cells a reveal at c must uncover: c alone when c has a count, else the
\* zero component Z of c and every cell adjacent to a cell of Z
FloodSet(g, c) ==
    IF g[c[2]][c[1]].neighbors > 0 THEN {c}
    ELSE Grow(g, {c}) \cup UNION {Adjacent(g, p) : p \in Grow(g, {c})}

\* the left click of this step (right button up) is on the unrevealed cell c,
\* which holds no mine once mines are placed, on a board without flags, and
\* no cell of the zero component of c was revealed before
FloodCase(c) ==
    /\ InConfig(Config, c[1], c[2])
    /\ Flagged(grid) = {}
    /\ Mines(grid') # {}
    /\ ~grid'[c[2]][c[1]].hasMine
    /\ ~grid[c[2]][c[1]].revealed
    /\ grid'[c[2]][c[1]].neighbors = 0 => Grow(grid', {c}) \cap Revealed(grid) = {}

C11_MineHit ==
    [][(/\ LeftPressed /\ ~firstClick
        /\ InConfig(Config, last'.cell[1], last'.cell[2])
        /\ ~grid[last'.cell[2]][last'.cell[1]].flagged
        /\ grid[last'.cell[2]][last'.cell[1]].hasMine)
            => /\ gameOver'
               /\ Mines(grid') = Mines(grid)
               /\ Mines(grid') \subseteq Revealed(grid')
               /\ Revealed(grid') \ Mines(grid') = Revealed(grid) \ Mines(grid)]_vars

\* a mine has just been hit on a board with two mines and a cell still hidden
C11_Witness ==
    /\ last.op = "play" /\ last.leftPath = "mine" /\ ~last.placed
    /\ gameOver
    /\ Cardinality(Mines(grid)) > 1
    /\ Positions(grid) # Revealed(grid)

\* C12: win suppression. In every reachable state whose board has no revealed
\* cell (at launch, after a restart, after a difficulty selection, after flag
\* toggles before the first reveal), won is false.
C12_WinSuppression == Revealed(grid) = {} => ~won

\* checkWin has just run on a started session whose mines are all flagged and
\* whose board has no revealed cell
C12_Witness ==
    /\ last.op = "play" /\ ~panicked /\ ~firstClick
    /\ Revealed(grid) = {}
    /\ Mines(grid) # {}
    /\ Mines(grid) \subseteq Flagged(grid)

\* C13: restart. A click on the restart button in a won or lost session gives
\* a session of the same difficulty that awaits its first click: gameOver and
\* won false, elapsedTime 0, firstClick true, and a grid of cells without
\* mine, flag or reveal.
C13_Restart ==
    [][last'.op = "restart" =>
        /\ gameOver \/ won
        /\ difficulty' = difficulty
        /\ ~gameOver' /\ ~won'
        /\ elapsedTime' = 0
        /\ firstClick'
        /\ grid' = NewGrid(difficultySettings[difficulty'])]_vars

\* C14: difficulty change. Selecting difficulty d in the menu gives a session
\* of difficulty d that awaits its first click: the grid is a new grid of the
\* size of d without mine, flag or reveal, and firstClick is true.
C14_DifficultyChange ==
    [][showingDifficultyMenu =>
        \A in \in MenuInputs : SelectDifficulty(in) =>
            /\ difficulty' = in.btn
            /\ ~gameOver' /\ ~won'
            /\ ~showingDifficultyMenu'
            /\ firstClick'
            /\ grid' = NewGrid(difficultySettings[in.btn])]_vars

\* C15: board dimensions. In every reachable state the grid has exactly
\* GridHeight rows of exactly GridWidth cells of the active difficulty, and no
\* bounds check of the engine has let an index leave the grid (no index out
\* of range).
C15_BoardDimensions ==
    /\ DOMAIN grid = 0..(Config.GridHeight - 1)
    /\ \A y \in DOMAIN grid : DOMAIN grid[y] = 0..(Config.GridWidth - 1)
    /\ ~panicked

\* C16: elapsed time. elapsedTime changes only in ticks of a session that has
\* had its first reveal and is neither won nor lost: it is 0 as long as the
\* board of the session has no revealed cell, and it does not change in a
\* step taken from a won or lost session, restart and selection apart.
C16_ElapsedTime ==
    [][/\ Revealed(grid') = {} => elapsedTime' = 0
       /\ ((gameOver \/ won) /\ last'.op \notin {"restart", "select"})
                => elapsedTime' = elapsedTime
       /\ Revealed(grid) = {} => elapsedTime' = 0]_vars

\* the sound name was played in the latest tick
Played(name, l) == \E i \in DOMAIN l.sounds : l.sounds[i] = name

\* C17: notifications. The win sound is played in every tick that takes won
\* from false to true, the explosion sound in exactly the ticks whose left
\* click hits a mine, the flag sound in exactly the ticks that toggle a flag.
C17_Notifications ==
    [][/\ (~won /\ won') => Played("win", last')
       /\ Played("explosion", last') <=> (last'.op = "play" /\ last'.leftPath = "mine")
       /\ Played("flag", last') <=> Flagged(grid') # Flagged(grid) /\ last'.op = "play"]_vars

\* C18: win with untouched mines. After a tick that ran checkWin on a started
\* session, when every cell without a mine is revealed and no mine is flagged
\* or revealed, won is true.
C18_WinUntouchedMines ==
    (/\ last.op = "play" /\ ~panicked /\ ~firstClick
     /\ Positions(grid) \ Mines(grid) \subseteq Revealed(grid)
     /\ Mines(grid) \cap (Flagged(grid) \cup Revealed(grid)) = {})
        => won

\* the grid on which the left-click block of this step called revealCell: the
\* mines and counts of grid' (placement comes first) with the revealed of grid
BeforeReveal ==
    [y \in DOMAIN grid |-> [x \in DOMAIN grid[y] |->
        [grid'[y][x] EXCEPT !.revealed = grid[y][x].revealed]]]

\* the positions of the board of g and of the ring around it
WithRing(g) ==
    {<<x, y>> : x \in -1..Cardinality(DOMAIN g[0]), y \in -1..Cardinality(DOMAIN g)}

\* C19: flood fill termination. Every call of revealCell by a left click ends,
\* having set revealed once on each cell it uncovers (each unrevealed and
\* unflagged before) and made one call plus nine per uncovered cell without
\* adjacent mine; a call on a revealed, flagged or out-of-bounds position,
\* the self-call with offset (0, 0) included, changes nothing and calls nothing.
C19_FloodFillTermination ==
    [][(LeftPressed /\ last'.rightPath = "none"
            /\ last'.leftPath \in {"reveal", "revealed"}) =>
        \E b \in {Stored(BeforeReveal)} :
        \E t \in {revealCellCounted(NoRun(b), Config, last'.cell[1], last'.cell[2])} :
            /\ t.grid = grid'
            /\ Cardinality({t.writes[i] : i \in DOMAIN t.writes}) = Len(t.writes)
            /\ \A i \in DOMAIN t.writes :
                    /\ ~b[t.writes[i][2]][t.writes[i][1]].revealed
                    /\ ~b[t.writes[i][2]][t.writes[i][1]].flagged
            /\ t.calls = 1 + 9 * Cardinality({i \in DOMAIN t.writes :
                                b[t.writes[i][2]][t.writes[i][1]].neighbors = 0})
            /\ \A p \in WithRing(grid') :
                    (\/ ~InConfig(Config, p[1], p[2])
                     \/ grid'[p[2]][p[1]].revealed
                     \/ grid'[p[2]][p[1]].flagged)
                        => revealCellCounted(NoRun(grid'), Config, p[1], p[2])
                                = [NoRun(grid') EXCEPT !.calls = 1]]_vars

\* a left click on a cell without adjacent mine has just flooded a board
\* that holds a flag
C19_Witness ==
    /\ last.op = "play" /\ last.leftPath = "reveal" /\ last.rightPath = "none"
    /\ grid[last.cell[2]][last.cell[1]].neighbors = 0
    /\ Cardinality(Revealed(grid)) > 1
    /\ Flagged(grid) # {}

\* the cells left to the placement loop on a board of configuration config
\* that already holds one placement of mines and has a full safe zone
LeftToPlace(config) ==
    config.GridWidth * config.GridHeight - config.MineCount - Cardinality(Offsets)

\* C20: placement can complete. Every call of initializeGridSafely finds at
\* least MineCount cells that hold no mine and lie outside the safe zone: the
\* call of a restart or a selection on a new grid, and the call of a first
\* click at any cell, which comes on a grid holding at most one placement of
\* mines; the shipped sizes leave that many cells in the worst case as well.
C20_PlacementCompletes ==
    /\ \A d \in Difficulty : NewGameMined[d] # {}
    /\ firstClick =>
            /\ Cardinality(Mines(grid)) <= Config.MineCount
            /\ \A c \in Positions(grid) :
                    PlacementChoices(grid, Config, c[1], c[2]) # {}
    /\ \A d \in Difficulty :
            /\ LeftToPlace(shippedSettings[d]) >= shippedSettings[d].MineCount
            /\ LeftToPlace(difficultySettings[d]) >= difficultySettings[d].MineCount

\* a restart has just mined the grid and left firstClick true: the first
\* click will call initializeGridSafely on a grid that holds mines
C20_Witness ==
    /\ last.op = "restart" /\ firstClick /\ ~showingDifficultyMenu
    /\ Cardinality(Mines(grid)) = Config.MineCount

\* C21: no mine revealed in play. In every reachable state of a session that
\* is not lost, no cell holds a mine and is revealed; and on the board of a
\* started session that is not lost, revealCell called on any cell without a
\* mine, whatever the flags, sets revealed on no mine.
C21_NoMineRevealedInPlay ==
    /\ ~gameOver => Mines(grid) \cap Revealed(grid) = {}
    /\ (~gameOver /\ ~firstClick /\ ~panicked) =>
            \A p \in Positions(grid) \ Mines(grid) :
                \E h \in {revealCell(grid, Config, p[1], p[2])} :
                    Mines(h) \cap Revealed(h) = {}

\* a first click after a restart has just placed a second set of mines and
\* flooded from a cell without adjacent mine, and the session goes on
C21_Witness ==
    /\ last.op = "play" /\ last.leftPath = "reveal" /\ last.placed
    /\ ~gameOver
    /\ Cardinality(Mines(grid)) > 1
    /\ grid[last.cell[2]][last.cell[1]].neighbors = 0
    /\ Cardinality(Revealed(grid)) > 1
    /\ \E m \in Mines(grid) : Adjacent(grid, m) \cap Revealed(grid) # {}

\* the mines and counts of grid g, cell by cell
Layout(g) ==
    [p \in Positions(g) |-> <<g[p[2]][p[1]].hasMine, g[p[2]][p[1]].neighbors>>]

\* C22: mine layout frozen during play. From a state of a started session
\* (firstClick false), every tick other than a restart or a difficulty
\* selection, whatever its clicks, leaves hasMine and neighbors of every cell
\* unchanged and places no mine.
C22_LayoutFrozen ==
    [][(~firstClick /\ last'.op \notin {"restart", "select"})
            => (Layout(grid') = Layout(grid) /\ ~last'.placed)]_vars

\* a flag has just been toggled in a started session that has revealed cells
C22_Witness ==
    /\ last.op = "play" /\ last.leftPath = "none" /\ last.rightPath = "toggle"
    /\ ~firstClick /\ ~last.placed
    /\ Revealed(grid) # {}
    /\ Mines(grid) # {}

\* C23: forced difficulty menu. Every tick that starts and ends with
\* firstClick true in a session neither won nor lost, and runs to its end,
\* ends with the menu open; while the menu is open a tick without a selection
\* changes no cell, whatever the clicks, and the menu closes only by a
\* selection; so firstClick turns false only by a selection or by the left
\* click on a cell in the tick that follows launch or a restart, and any
\* other tick after a restart ends with the menu open.
C23_ForcedMenu ==
    [][/\ (firstClick /\ firstClick' /\ ~gameOver' /\ ~won' /\ ~panicked')
                => showingDifficultyMenu'
       /\ (showingDifficultyMenu /\ last'.op # "select")
                => /\ last'.op = "menu"
                   /\ UNCHANGED <<grid, gameOver, won, firstClick, difficulty>>
       /\ (showingDifficultyMenu /\ ~showingDifficultyMenu') => last'.op = "select"
       /\ (firstClick /\ ~firstClick') =>
                \/ last'.op = "select"
                \/ /\ last.op \in {"init", "restart"}
                   /\ last'.op = "play" /\ last'.placed
                   /\ last'.leftPath \in {"reveal", "mine"}
       /\ (last.op = "restart" /\ ~panicked') =>
                \/ /\ showingDifficultyMenu' /\ firstClick'
                   /\ Layout(grid') = Layout(grid)
                   /\ Revealed(grid') = {}
                \/ ~firstClick' /\ last'.placed]_vars

\* the menu forced open on a restarted session has just ignored a left click
\* and a right click
C23_Witness ==
    /\ last.op = "menu"
    /\ last.leftPath = "ignored" /\ last.rightPath = "ignored"
    /\ showingDifficultyMenu /\ firstClick
    /\ ~gameOver /\ ~won
    /\ Mines(grid) # {}

\* the cells of g that are flagged and revealed
FlaggedAndRevealed(g) == Flagged(g) \cap Revealed(g)

\* C24: flagged and revealed exclusive in play. In every reachable state of a
\* session that is not lost no cell is both flagged and revealed; in a lost
\* session the cells that are both are the flagged mines, every mine having
\* been revealed by revealAllMines, and no flagged cell without a mine is
\* revealed.
C24_FlaggedRevealedExclusive ==
    \A p \in Positions(grid) :
        LET cell == grid[p[2]][p[1]]
        IN  /\ (cell.flagged /\ cell.revealed) => (gameOver /\ cell.hasMine)
            /\ (gameOver /\ cell.hasMine) => cell.revealed

\* a mine has just been hit on a board with a flagged mine: the flagged mine
\* is revealed
C24_Witness ==
    /\ last.op = "play" /\ last.leftPath = "mine"
    /\ gameOver
    /\ FlaggedAndRevealed(grid) # {}

====
